---- MODULE Spec2Model ----
(***************************************************************************)
(* Verification model of gramit's transform module (src/src/transform.rs): *)
(* the Transform builder and the free matrix constructors translate,       *)
(* scale, shear_x/y/z, rotate, look_at, ortho and perspective.             *)
(*                                                                         *)
(* Numbers.  f32 values are modelled as exact rationals <<num, den>> in    *)
(* lowest terms with den > 0, so every equality below is an equality of    *)
(* exact arithmetic (the repository's tests compare with approx_eq).       *)
(*                                                                         *)
(* Matrices.  Mat4 is column-major: m[c][r] is column c, row r, exactly    *)
(* as the source indexes it (translate writes set_col(3, ..), look_at and  *)
(* ortho write the translation into m[3][0..2]).  Indices are 0-based.     *)
(*                                                                         *)
(* Angles.  An Angle is represented by q = tan(angle / 4), a rational, so  *)
(* that the half-angle sine, cosine and tangent the source takes are the   *)
(* rationals 2q/(1+q^2), (1-q^2)/(1+q^2) and 2q/(1-q^2).                   *)
(***************************************************************************)
EXTENDS Integers, Sequences, FiniteSets, TLC

(***************************************************************************)
(* Bounds of the model.                                                    *)
(***************************************************************************)
MaxChain == 3
MaxCoord == 2
MaxAxis == 2
MaxAngle == 2
MaxOrtho == 1
MaxDepth == 3
MaxEye == 1

(***************************************************************************)
(* Exact rational arithmetic (stands for f32 arithmetic).                  *)
(***************************************************************************)
Abs(n) == IF n < 0 THEN -n ELSE n

RECURSIVE GCD(_, _)
GCD(a, b) == IF b = 0 THEN a ELSE GCD(b, a % b)

Norm(n, d) ==
    LET g == GCD(Abs(n), Abs(d))
        s == IF d < 0 THEN -1 ELSE 1
    IN  <<(s * n) \div g, (s * d) \div g>>

R(n) == <<n, 1>>
Frac(n, d) == Norm(n, d)
RAdd(a, b) ==
    LET g == GCD(a[2], b[2])
    IN  Norm(a[1] * (b[2] \div g) + b[1] * (a[2] \div g), (a[2] \div g) * b[2])
RNeg(a) == <<-a[1], a[2]>>
RSub(a, b) == RAdd(a, RNeg(b))
RMul(a, b) == Norm(a[1] * b[1], a[2] * b[2])
RDiv(a, b) == Norm(a[1] * b[2], a[2] * b[1])
RLess(a, b) == a[1] * b[2] < b[1] * a[2]

IsSquare(n) == \E k \in 0..n : k * k = n
ISqrt(n) == CHOOSE k \in 0..n : k * k = n
RSqrt(a) == <<ISqrt(a[1]), ISqrt(a[2])>>

(***************************************************************************)
(* The linear-algebra primitives the module imports with `use super::*`.   *)
(***************************************************************************)
Vec3(x, y, z) == [i \in 0..2 |-> CASE i = 0 -> x [] i = 1 -> y [] OTHER -> z]
Vec4(x, y, z, w) ==
    [i \in 0..3 |-> CASE i = 0 -> x [] i = 1 -> y [] i = 2 -> z [] OTHER -> w]
IVec3(x, y, z) == Vec3(R(x), R(y), R(z))

extend(v, w) == Vec4(v[0], v[1], v[2], w)
homogeneous(v) == extend(v, R(1))
homogenize(v) == Vec3(RDiv(v[0], v[3]), RDiv(v[1], v[3]), RDiv(v[2], v[3]))

VAdd(a, b) == [i \in DOMAIN a |-> RAdd(a[i], b[i])]
VSub(a, b) == [i \in DOMAIN a |-> RSub(a[i], b[i])]
VNeg(a) == [i \in DOMAIN a |-> RNeg(a[i])]
VScale(k, a) == [i \in DOMAIN a |-> RMul(k, a[i])]
dot(a, b) == RAdd(RAdd(RMul(a[0], b[0]), RMul(a[1], b[1])), RMul(a[2], b[2]))
cross(a, b) ==
    Vec3(RSub(RMul(a[1], b[2]), RMul(a[2], b[1])),
         RSub(RMul(a[2], b[0]), RMul(a[0], b[2])),
         RSub(RMul(a[0], b[1]), RMul(a[1], b[0])))
length(a) == RSqrt(dot(a, a))
unit(a) == LET l == length(a) IN [i \in DOMAIN a |-> RDiv(a[i], l)]

identity == [c \in 0..3 |-> [r \in 0..3 |-> IF c = r THEN R(1) ELSE R(0)]]
zeros == [c \in 0..3 |-> [r \in 0..3 |-> R(0)]]
Mat4(c0, c1, c2, c3) ==
    [c \in 0..3 |-> CASE c = 0 -> c0 [] c = 1 -> c1 [] c = 2 -> c2 [] OTHER -> c3]
set(m, c, r, x) == [m EXCEPT ![c][r] = x]
set_col(m, c, v) == [m EXCEPT ![c] = v]
set_row(m, r, v) == [c \in 0..3 |-> [m[c] EXCEPT ![r] = v[c]]]

Sum4(f) == RAdd(RAdd(f[0], f[1]), RAdd(f[2], f[3]))
\* Matrix product and matrix-vector product.  The operands are bound to
\* values first so that each is evaluated once, not once per entry read.
MatMul(a, b) ==
    CHOOSE m \in
        {[c \in 0..3 |-> [r \in 0..3 |->
             Sum4([k \in 0..3 |-> RMul(x[k][r], y[c][k])])]] :
         x \in {a}, y \in {b}} : TRUE
MatVec(a, v) ==
    CHOOSE u \in
        {[r \in 0..3 |-> Sum4([k \in 0..3 |-> RMul(x[k][r], y[k])])] :
         x \in {a}, y \in {v}} : TRUE

half_sin(q) == RDiv(RMul(R(2), q), RAdd(R(1), RMul(q, q)))
half_cos(q) == RDiv(RSub(R(1), RMul(q, q)), RAdd(R(1), RMul(q, q)))
half_tan(q) == RDiv(RMul(R(2), q), RSub(R(1), RMul(q, q)))
from_degrees_0 == R(0)
from_degrees_180 == R(1)

(***************************************************************************)
(* The free matrix constructors of transform.rs.                           *)
(***************************************************************************)
translate_row(offset) == set_row(identity, 3, extend(offset, R(1)))

translate(offset) == set_col(identity, 3, extend(offset, R(1)))

scale(factor) ==
    set(set(set(identity, 0, 0, factor[0]), 1, 1, factor[1]), 2, 2, factor[2])

shear_x(y_amount, z_amount) == set(set(identity, 0, 1, y_amount), 0, 2, z_amount)

shear_y_swapped(x_amount, z_amount) ==
    set(set(identity, 1, 0, z_amount), 1, 2, x_amount)

shear_y(x_amount, z_amount) == set(set(identity, 1, 0, x_amount), 1, 2, z_amount)

shear_z_row(x_amount, y_amount) == set(set(identity, 0, 2, x_amount), 1, 2, y_amount)

shear_z(x_amount, y_amount) == set(set(identity, 2, 0, x_amount), 2, 1, y_amount)

\* The expansion of the quaternion (w, v) into a rotation matrix.
quat_matrix(w, v) ==
    LET xy == RMul(v[0], v[1])
        xz == RMul(v[0], v[2])
        xw == RMul(v[0], w)
        x2 == RMul(v[0], v[0])
        yz == RMul(v[1], v[2])
        yw == RMul(v[1], w)
        y2 == RMul(v[1], v[1])
        zw == RMul(v[2], w)
        z2 == RMul(v[2], v[2])
        two(x) == RMul(R(2), x)
        one_minus(x) == RSub(R(1), x)
    IN  Mat4(Vec4(one_minus(two(RAdd(y2, z2))), two(RAdd(xy, zw)),
                  two(RSub(xz, yw)), R(0)),
             Vec4(two(RSub(xy, zw)), one_minus(two(RAdd(x2, z2))),
                  two(RAdd(yz, xw)), R(0)),
             Vec4(two(RAdd(xz, yw)), two(RSub(yz, xw)),
                  one_minus(two(RAdd(x2, y2))), R(0)),
             Vec4(R(0), R(0), R(0), R(1)))

rotate_unnormalized(axis, angle) ==
    quat_matrix(half_cos(angle), VScale(half_sin(angle), axis))

rotate(axis, angle) ==
    quat_matrix(half_cos(angle), VScale(half_sin(angle), unit(axis)))

look_at(eye, center, up) ==
    LET facing == unit(VSub(center, eye))
        horiz == cross(facing, unit(up))
        cam_up == cross(horiz, facing)
        m0 == set_row(identity, 0, extend(horiz, R(0)))
        m1 == set_row(m0, 1, extend(cam_up, R(0)))
        m2 == set_row(m1, 2, VNeg(extend(facing, R(0))))
        m3 == set(m2, 3, 0, RNeg(dot(eye, horiz)))
        m4 == set(m3, 3, 1, RNeg(dot(eye, cam_up)))
    IN  set(m4, 3, 2, dot(eye, facing))

ortho_noflip(left, right, bottom, top, near, far) ==
    LET m0 == set(identity, 0, 0, RDiv(R(2), RSub(right, left)))
        m1 == set(m0, 1, 1, RDiv(R(2), RSub(top, bottom)))
        m2 == set(m1, 2, 2, RDiv(R(2), RSub(far, near)))
        m3 == set(m2, 3, 0, RDiv(RNeg(RAdd(right, left)), RSub(right, left)))
        m4 == set(m3, 3, 1, RDiv(RNeg(RAdd(top, bottom)), RSub(top, bottom)))
    IN  set(m4, 3, 2, RDiv(RNeg(RAdd(far, near)), RSub(far, near)))

ortho(left, right, bottom, top, near, far) ==
    LET m0 == set(identity, 0, 0, RDiv(R(2), RSub(right, left)))
        m1 == set(m0, 1, 1, RDiv(R(2), RSub(top, bottom)))
        m2 == set(m1, 2, 2, RDiv(R(-2), RSub(far, near)))
        m3 == set(m2, 3, 0, RDiv(RNeg(RAdd(right, left)), RSub(right, left)))
        m4 == set(m3, 3, 1, RDiv(RNeg(RAdd(top, bottom)), RSub(top, bottom)))
    IN  set(m4, 3, 2, RDiv(RNeg(RAdd(far, near)), RSub(far, near)))

perspective_half(fovy, aspect_xy, near, far) ==
    LET tan_half_fov == half_tan(fovy)
        m0 == set(zeros, 0, 0, RDiv(R(1), RMul(aspect_xy, tan_half_fov)))
        m1 == set(m0, 1, 1, RDiv(R(1), tan_half_fov))
        m2 == set(m1, 2, 2, RDiv(RNeg(RAdd(far, near)), RSub(far, near)))
        m3 == set(m2, 2, 3, R(-1))
    IN  set(m3, 3, 2, RDiv(RNeg(RMul(far, near)), RSub(far, near)))

perspective(fovy, aspect_xy, near, far) ==
    LET tan_half_fov == half_tan(fovy)
        m0 == set(zeros, 0, 0, RDiv(R(1), RMul(aspect_xy, tan_half_fov)))
        m1 == set(m0, 1, 1, RDiv(R(1), tan_half_fov))
        m2 == set(m1, 2, 2, RDiv(RNeg(RAdd(far, near)), RSub(far, near)))
        m3 == set(m2, 2, 3, R(-1))
    IN  set(m3, 3, 2,
            RDiv(RNeg(RMul(RMul(R(2), far), near)), RSub(far, near)))

(***************************************************************************)
(* impl Transform: the builder methods.                                    *)
(***************************************************************************)
new == [mat |-> identity]

Transform_translate(self, offset) == [mat |-> MatMul(translate(offset), self.mat)]

Transform_scale(self, factor) == [mat |-> MatMul(scale(factor), self.mat)]

Transform_shear_x(self, y_amount, z_amount) ==
    [mat |-> MatMul(shear_x(y_amount, z_amount), self.mat)]

Transform_shear_y_right(self, x_amount, z_amount) ==
    [mat |-> MatMul(self.mat, shear_y(x_amount, z_amount))]

Transform_shear_y(self, x_amount, z_amount) ==
    [mat |-> MatMul(shear_y(x_amount, z_amount), self.mat)]

Transform_shear_z(self, x_amount, y_amount) ==
    [mat |-> MatMul(shear_z(x_amount, y_amount), self.mat)]

Transform_rotate_right(self, axis, angle) ==
    [mat |-> MatMul(self.mat, rotate(axis, angle))]

Transform_rotate(self, axis, angle) == [mat |-> MatMul(rotate(axis, angle), self.mat)]

Transform_arbitrary(self, transform) == [mat |-> MatMul(transform, self.mat)]

finish(self) == self.mat

(***************************************************************************)
(* State.  transform is the builder value; chain is the history of the     *)
(* builder methods applied to Transform::new() so far; out holds the       *)
(* matrix the latest finish() returned (<<>> before the first call); last  *)
(* is the name of the latest builder operation.  fn, args and ret are the  *)
(* latest call of a free constructor: its name, arguments and result.      *)
(***************************************************************************)
VARIABLES transform, chain, out, last, fn, args, ret

vars == <<transform, chain, out, last, fn, args, ret>>
builderVars == <<transform, chain, out, last>>
callVars == <<fn, args, ret>>

(***************************************************************************)
(* Inputs.                                                                 *)
(***************************************************************************)
Coords == (-MaxCoord)..MaxCoord
Points == {IVec3(x, y, z) : x \in Coords, y \in Coords, z \in Coords}
Amounts == {<<R(a), R(b)>> : a \in Coords, b \in Coords}

AxisCoords == (-MaxAxis)..MaxAxis
Axes ==
    {IVec3(x, y, z) : <<x, y, z>> \in
        {t \in AxisCoords \X AxisCoords \X AxisCoords :
            /\ t # <<0, 0, 0>>
            /\ IsSquare(t[1] * t[1] + t[2] * t[2] + t[3] * t[3])}}
Angles == {Frac(p, q) : p \in (-MaxAngle)..MaxAngle, q \in 1..MaxAngle}
FovAngles == {Frac(p, q) : <<p, q>> \in
                 {t \in (1..MaxAngle) \X (2..(MaxAngle + 1)) : t[1] < t[2]}}
Aspects == {Frac(p, q) : p \in 1..MaxDepth, q \in 1..MaxDepth}
Depths == {R(n) : n \in 1..MaxDepth}
Planes == {R(n) : n \in (-MaxOrtho)..MaxOrtho}
Eyes == {IVec3(x, y, z) : x \in 0..MaxEye, y \in 0..MaxEye, z \in 0..MaxEye}
Parallel(a, b) == cross(a, b) = IVec3(0, 0, 0)

BuilderOffsets == {IVec3(1, 2, 3)}
BuilderFactors == {IVec3(2, 3, 1), IVec3(0, 1, 1)}
BuilderShears == {<<R(1), R(0)>>}
BuilderRotations ==
    {<<IVec3(0, 1, 0), from_degrees_180>>, <<IVec3(0, 0, 2), Frac(1, 2)>>}
BuilderMatrices == {perspective(Frac(1, 2), R(2), R(1), R(3))}

Init ==
    /\ transform = new
    /\ chain = <<>>
    /\ out = <<>>
    /\ last = "new"
    /\ fn = "none"
    /\ args = <<>>
    /\ ret = identity

(***************************************************************************)
(* Builder operations.                                                     *)
(***************************************************************************)
Applied(op, a, t) ==
    /\ Len(chain) < MaxChain
    /\ transform' = t
    /\ chain' = Append(chain, [op |-> op, args |-> a])
    /\ last' = op
    /\ UNCHANGED <<out, callVars>>

New ==
    /\ transform' = new
    /\ chain' = <<>>
    /\ out' = <<>>
    /\ last' = "new"
    /\ UNCHANGED callVars

Translate ==
    \E o \in BuilderOffsets :
        Applied("translate", <<o>>, Transform_translate(transform, o))

Scale ==
    \E f \in BuilderFactors :
        Applied("scale", <<f>>, Transform_scale(transform, f))

ShearX ==
    \E a \in BuilderShears :
        Applied("shear_x", a, Transform_shear_x(transform, a[1], a[2]))

ShearY ==
    \E a \in BuilderShears :
        Applied("shear_y", a, Transform_shear_y(transform, a[1], a[2]))

ShearZ ==
    \E a \in BuilderShears :
        Applied("shear_z", a, Transform_shear_z(transform, a[1], a[2]))

Rotate ==
    \E a \in BuilderRotations :
        Applied("rotate", a, Transform_rotate(transform, a[1], a[2]))

Arbitrary ==
    \E m \in BuilderMatrices :
        Applied("arbitrary", <<m>>, Transform_arbitrary(transform, m))

FinishConsuming ==
    /\ out' = <<finish(transform)>>
    /\ transform' = new
    /\ last' = "finish"
    /\ UNCHANGED <<chain, callVars>>

Finish ==
    /\ out' = <<finish(transform)>>
    /\ last' = "finish"
    /\ UNCHANGED <<transform, chain, callVars>>

Next ==
    \/ New
    \/ Translate
    \/ Scale
    \/ ShearX
    \/ ShearY
    \/ ShearZ
    \/ Rotate
    \/ Arbitrary
    \/ Finish

Spec == Init /\ [][Next]_vars

(***************************************************************************)
(* Calls of the free constructors.                                         *)
(***************************************************************************)
Idle == fn = "none"

Called(name, a, m) ==
    /\ fn' = name
    /\ args' = a
    /\ ret' = m
    /\ UNCHANGED builderVars

CallTranslate ==
    /\ Idle
    /\ \E o \in Points : Called("translate", <<o>>, translate(o))

CallShearX ==
    /\ Idle
    /\ \E a \in Amounts : Called("shear_x", a, shear_x(a[1], a[2]))

CallShearY ==
    /\ Idle
    /\ \E a \in Amounts : Called("shear_y", a, shear_y(a[1], a[2]))

CallShearZ ==
    /\ Idle
    /\ \E a \in Amounts : Called("shear_z", a, shear_z(a[1], a[2]))

CallRotate ==
    /\ Idle
    /\ \E axis \in Axes, angle \in Angles :
        Called("rotate", <<axis, angle>>, rotate(axis, angle))

CallLookAt ==
    /\ Idle
    /\ \E eye \in Eyes, dir \in Axes, up \in Axes :
        /\ ~Parallel(dir, up)
        /\ Called("look_at", <<eye, VAdd(eye, dir), up>>,
                  look_at(eye, VAdd(eye, dir), up))

CallOrtho ==
    /\ Idle
    /\ \E left \in Planes, right \in Planes, bottom \in Planes, top \in Planes,
       near \in Planes, far \in Planes :
        /\ left # right
        /\ bottom # top
        /\ near # far
        /\ Called("ortho", <<left, right, bottom, top, near, far>>,
                  ortho(left, right, bottom, top, near, far))

CallPerspective ==
    /\ Idle
    /\ \E fovy \in FovAngles, aspect_xy \in Aspects, near \in Depths, far \in Depths :
        /\ RLess(near, far)
        /\ Called("perspective", <<fovy, aspect_xy, near, far>>,
                  perspective(fovy, aspect_xy, near, far))

Return ==
    /\ fn # "none"
    /\ fn' = "none"
    /\ args' = <<>>
    /\ ret' = identity
    /\ UNCHANGED builderVars

NextFn ==
    \/ CallTranslate
    \/ CallShearX
    \/ CallShearY
    \/ CallShearZ
    \/ CallRotate
    \/ CallLookAt
    \/ CallOrtho
    \/ CallPerspective
    \/ Return

SpecFn == Init /\ [][NextFn]_vars

(***************************************************************************)
(* Helpers of the properties.                                              *)
(***************************************************************************)
ElemMatrix(e) ==
    CASE e.op = "translate" -> translate(e.args[1])
      [] e.op = "scale" -> scale(e.args[1])
      [] e.op = "shear_x" -> shear_x(e.args[1], e.args[2])
      [] e.op = "shear_y" -> shear_y(e.args[1], e.args[2])
      [] e.op = "shear_z" -> shear_z(e.args[1], e.args[2])
      [] e.op = "rotate" -> rotate(e.args[1], e.args[2])
      [] OTHER -> e.args[1]

\* M_n * ... * M_2 * M_1 for the chain <<M_1, ..., M_n>>, grouped from the
\* left end: (M_n * ... * M_2) * M_1; the empty product is the identity.
RECURSIVE ChainProduct(_)
ChainProduct(ch) ==
    IF ch = <<>> THEN identity
    ELSE MatMul(ChainProduct(Tail(ch)), ElemMatrix(Head(ch)))

Image(m, p) == homogenize(MatVec(m, homogeneous(p)))
Row3(m, r) == Vec3(m[0][r], m[1][r], m[2][r])
IsChain(ops) ==
    /\ Len(chain) = Len(ops)
    /\ \A i \in 1..Len(ops) : chain[i].op = ops[i]

(***************************************************************************)
(* C1.  Builder order law: in every reachable builder state the            *)
(* accumulated matrix equals M_n * ... * M_1 * identity, M_i being the     *)
(* elementary matrix of the i-th method of the chain; the empty chain      *)
(* gives the identity.                                                     *)
(***************************************************************************)
BuilderOrderLaw == transform.mat = MatMul(ChainProduct(chain), identity)

\* A chain of two methods whose matrices do not commute.
BuilderOrderWitness ==
    /\ Len(chain) = 2
    /\ MatMul(ElemMatrix(chain[2]), ElemMatrix(chain[1]))
         # MatMul(ElemMatrix(chain[1]), ElemMatrix(chain[2]))

TranslateLaw ==
    fn = "translate" => \A p \in Points : Image(ret, p) = VAdd(p, args[1])

TranslateWitness == fn = "translate" /\ args = <<IVec3(1, -2, 2)>>

(***************************************************************************)
(* C4.  shear_x(a1, a2) maps (x, y, z) to (x, y + x*a1, z + x*a2),         *)
(* shear_y(a1, a2) to (x + y*a1, y, z + y*a2) and shear_z(a1, a2) to       *)
(* (x + z*a1, y + z*a2, z).                                                *)
(***************************************************************************)
ShearLaw ==
    \A p \in Points :
        LET a1 == args[1]
            a2 == args[2]
            x == p[0]
            y == p[1]
            z == p[2]
        IN  /\ fn = "shear_x" =>
                 Image(ret, p) = Vec3(x, RAdd(y, RMul(x, a1)), RAdd(z, RMul(x, a2)))
            /\ fn = "shear_y" =>
                 Image(ret, p) = Vec3(RAdd(x, RMul(y, a1)), y, RAdd(z, RMul(y, a2)))
            /\ fn = "shear_z" =>
                 Image(ret, p) = Vec3(RAdd(x, RMul(z, a1)), RAdd(y, RMul(z, a2)), z)

ShearWitness == fn = "shear_y" /\ args = <<R(2), R(-1)>>

(***************************************************************************)
(* C5.  As claimed: each shear displaces the sheared axis's own coordinate *)
(* by amount1 * (first other coordinate) + amount2 * (second other         *)
(* coordinate) and leaves the other two coordinates unchanged.             *)
(***************************************************************************)
ShearOwnCoordinateClaim ==
    \A p \in Points :
        LET a1 == args[1]
            a2 == args[2]
            x == p[0]
            y == p[1]
            z == p[2]
        IN  /\ fn = "shear_x" =>
                 Image(ret, p) = Vec3(RAdd(x, RAdd(RMul(a1, y), RMul(a2, z))), y, z)
            /\ fn = "shear_y" =>
                 Image(ret, p) = Vec3(x, RAdd(y, RAdd(RMul(a1, x), RMul(a2, z))), z)
            /\ fn = "shear_z" =>
                 Image(ret, p) = Vec3(x, y, RAdd(z, RAdd(RMul(a1, x), RMul(a2, y))))

(***************************************************************************)
(* C5, amended.  Each shear returns the identity matrix with exactly two   *)
(* off-diagonal entries set, both in the column of the sheared axis        *)
(* (m[axis][other1] = amount1, m[axis][other2] = amount2), so that the     *)
(* sheared axis's own coordinate is unchanged and the other two            *)
(* coordinates are displaced by amount1 and amount2 times it.              *)
(***************************************************************************)
ShearEntries(axis, o1, o2) ==
    /\ \A c \in 0..3, r \in 0..3 :
          ret[c][r] = IF c = axis /\ r = o1 THEN args[1]
                      ELSE IF c = axis /\ r = o2 THEN args[2]
                      ELSE identity[c][r]
    /\ \A p \in Points :
          LET q == Image(ret, p)
          IN  /\ q[axis] = p[axis]
              /\ q[o1] = RAdd(p[o1], RMul(args[1], p[axis]))
              /\ q[o2] = RAdd(p[o2], RMul(args[2], p[axis]))

ShearColumnLaw ==
    /\ fn = "shear_x" => ShearEntries(0, 1, 2)
    /\ fn = "shear_y" => ShearEntries(1, 0, 2)
    /\ fn = "shear_z" => ShearEntries(2, 0, 1)

ShearColumnWitness == fn = "shear_z" /\ args = <<R(1), R(-2)>>

(***************************************************************************)
(* C6.  As claimed: Transform::new().shear_x(1.0, 0.0).rotate(y-axis,      *)
(* 180 degrees).finish() applied to (1, 0, 0) yields (-1, -1, 0).          *)
(***************************************************************************)
DocExample ==
    /\ IsChain(<<"shear_x", "rotate">>)
    /\ chain[1].args = <<R(1), R(0)>>
    /\ chain[2].args = <<IVec3(0, 1, 0), from_degrees_180>>
    /\ last = "finish"

RotateLaw ==
    fn = "rotate" =>
        /\ args[2] = from_degrees_0 => ret = identity
        /\ MatMul(ret, rotate(args[1], RNeg(args[2]))) = identity

RotateWitness == fn = "rotate" /\ args = <<IVec3(1, -2, 2), Frac(1, 2)>>

(***************************************************************************)
(* C8.  ortho maps the eight corners of the box x in {left, right},        *)
(* y in {bottom, top}, z in {-near, -far} onto the corners of [-1, 1]^3,   *)
(* coordinate-wise, with output w = 1.                                     *)
(***************************************************************************)
OrthoLaw ==
    fn = "ortho" =>
        \A sx \in {-1, 1}, sy \in {-1, 1}, sz \in {-1, 1} :
            LET x == IF sx = -1 THEN args[1] ELSE args[2]
                y == IF sy = -1 THEN args[3] ELSE args[4]
                z == IF sz = -1 THEN RNeg(args[5]) ELSE RNeg(args[6])
            IN  MatVec(ret, Vec4(x, y, z, R(1))) = Vec4(R(sx), R(sy), R(sz), R(1))

OrthoWitness == fn = "ortho" /\ args = <<R(0), R(1), R(1), R(-1), R(1), R(0)>>

(***************************************************************************)
(* C9.  perspective maps (0, 0, -near, 1) to w = near and z / w = -1, and  *)
(* (0, 0, -far, 1) to w = far and z / w = 1.                               *)
(***************************************************************************)
PerspectiveLaw ==
    fn = "perspective" =>
        LET near == args[3]
            far == args[4]
            pn == MatVec(ret, Vec4(R(0), R(0), RNeg(near), R(1)))
            pf == MatVec(ret, Vec4(R(0), R(0), RNeg(far), R(1)))
        IN  /\ pn[3] = near
            /\ homogenize(pn)[2] = R(-1)
            /\ pf[3] = far
            /\ homogenize(pf)[2] = R(1)

PerspectiveWitness == fn = "perspective" /\ args = <<Frac(1, 2), R(2), R(1), R(3)>>

(***************************************************************************)
(* C10.  The camera basis look_at writes as rows 0..2 of its result is     *)
(* orthonormal: pairwise orthogonal, each of length 1, also when up is     *)
(* not perpendicular to center - eye.                                      *)
(***************************************************************************)
LookAtOrthonormal ==
    fn = "look_at" =>
        \A i \in 0..2, j \in 0..2 :
            dot(Row3(ret, i), Row3(ret, j)) = IF i = j THEN R(1) ELSE R(0)
====
